---- MODULE Spec2Model ----
(***************************************************************************)
(* TPMS BLE advertisement parser                                           *)
(* (custom_components/tpms_ble/tpms_parser/parser.py).                     *)
(*                                                                         *)
(* The state is the TPMSBluetoothDeviceData object (the sensor-state sink  *)
(* it inherits from BluetoothData) together with the observable outcome    *)
(* of the last call made on it.  One action per public entry point:        *)
(* CallStartUpdate (_start_update, with everything it calls) and           *)
(* CallSupported (supported).                                              *)
(*                                                                         *)
(* Numbers.  Python floats are modelled exactly, as fractions <<num, den>> *)
(* (the range tests of the TomTom decoder and the rounding of decoder B    *)
(* agree with IEEE doubles on every 16-bit input; the three exact rounding *)
(* ties of decoder B are listed where they occur).  Python's None is the   *)
(* empty tuple and a present value v is <<v>>.                             *)
(***************************************************************************)
EXTENDS Integers, Sequences, FiniteSets, TLC

VARIABLES
    sink,       \* the device/sensor state held by the object (BluetoothData)
    rec,        \* the service_info of the last call
    op,         \* the last call: "init", "start_update" or "supported"
    invoked,    \* the _process_* methods the last _start_update called, in order
    calls,      \* the sink keys the last call wrote, in order
    logged,     \* endian_used of the "TomTom TPMS parsed" log line of the last call
    ret,        \* the value the last supported() returned
    byteorder,  \* the byte order of the machine ("=" in struct.unpack)
    probe,      \* history variable: the record whose readings are compared
    probeOut,   \* history variable: what the first processing of probe emitted
    probeRuns   \* history variable: how often probe was processed (counted to 2)

vars == <<sink, rec, op, invoked, calls, logged, ret, byteorder, probe, probeOut, probeRuns>>

progVars == <<sink, rec, op, invoked, calls, logged, ret, byteorder>>

histVars == <<probe, probeOut, probeRuns>>

(***************************************************************************)
(* Values                                                                  *)
(***************************************************************************)
None == <<>>

Some(v) == <<v>>

UUID_B == "000027a5-0000-1000-8000-00805f9b34fb"

UUID_FBB0 == "0000fbb0-0000-1000-8000-00805f9b34fb"

\* a fraction a = <<num, den>> with den > 0
Leq(a, b) == a[1] * b[2] <= b[1] * a[2]

Lt(a, b) == a[1] * b[2] < b[1] * a[2]

SameValue(a, b) == a[1] * b[2] = b[1] * a[2]

Min(a, b) == IF a <= b THEN a ELSE b

Max(a, b) == IF a >= b THEN a ELSE b

(***************************************************************************)
(* bytes: sequences of 0..255, indexed from 0 as in Python                 *)
(***************************************************************************)
\* data[i]
At(data, i) == data[i + 1]

\* data[a:b] (Python slicing: the bounds are clipped to the length)
Slice(data, a, b) ==
    LET lo == Min(a, Len(data))
        hi == Min(b, Len(data))
    IN  IF hi <= lo THEN <<>> ELSE [i \in 1..(hi - lo) |-> data[lo + i]]

Reverse(s) == [i \in 1..Len(s) |-> s[Len(s) + 1 - i]]

\* struct "i": four bytes in the given byte order, two's complement
unpack_i(bs, order) ==
    LET b == IF order = "big" THEN bs ELSE Reverse(bs)
        top == IF b[1] >= 128 THEN b[1] - 256 ELSE b[1]
    IN  top * 16777216 + b[2] * 65536 + b[3] * 256 + b[4]

\* struct "b": one byte, two's complement
unpack_b(byte) == IF byte >= 128 THEN byte - 256 ELSE byte

\* struct "?": one byte, any non-zero value is True
unpack_bool(byte) == byte # 0

(***************************************************************************)
(* Hex strings: sequences of hex digits (0..15)                            *)
(***************************************************************************)
RECURSIVE HexDigits(_)
\* hex(n)[2:] for n >= 0
HexDigits(n) ==
    IF n < 16 THEN <<n>> ELSE Append(HexDigits(n \div 16), n % 16)

\* s.zfill(w)
zfill(s, w) ==
    IF Len(s) >= w THEN s ELSE [i \in 1..(w - Len(s)) |-> 0] \o s

\* re.findall("..", s): the non-overlapping pairs, left to right
findall_pairs(s) ==
    [i \in 1..(Len(s) \div 2) |-> <<s[2 * i - 1], s[2 * i]>>]

RECURSIVE Join(_)
\* "".join(parts)
Join(parts) ==
    IF Len(parts) = 0 THEN <<>> ELSE Head(parts) \o Join(Tail(parts))

RECURSIVE HexValue(_)
\* int(s, 16)
HexValue(s) ==
    IF Len(s) = 0 THEN 0
    ELSE 16 * HexValue(SubSeq(s, 1, Len(s) - 1)) + s[Len(s)]

\* data.hex()
bytes_hex(data) ==
    [i \in 1..(2 * Len(data)) |->
        IF i % 2 = 1 THEN data[(i + 1) \div 2] \div 16 ELSE data[i \div 2] % 16]

(***************************************************************************)
(* manufacturer_data: a dict, modelled as its items in insertion order     *)
(* (distinct keys)                                                         *)
(***************************************************************************)
\* key in manufacturer_data
HasKey(md, key) == \E i \in 1..Len(md) : md[i].company_id = key

(***************************************************************************)
(* supported()                                                             *)
(***************************************************************************)
supported(service_info) ==
    LET manufacturer_data == service_info.manufacturer_data
        service_uuids == service_info.service_uuids
    IN  IF /\ UUID_FBB0 \in service_uuids
           /\ Len(manufacturer_data) > 0
           /\ HasKey(manufacturer_data, 256)
        THEN TRUE
        ELSE IF UUID_B \in service_uuids
        THEN TRUE
        ELSE IF Len(manufacturer_data) > 0 /\ HasKey(manufacturer_data, 256)
        THEN TRUE
        ELSE FALSE

(***************************************************************************)
(* The sink (BluetoothData): the object, self, is modelled as              *)
(*   [sink |-> the stored fields, calls |-> the keys written by this call, *)
(*    invoked |-> the _process_* methods this call entered,                *)
(*    logged |-> endian_used as the call logged it]                        *)
(***************************************************************************)
\* BluetoothData.update_sensor / update_binary_sensor / set_device_* / set_title:
\* store the value under the key
sink_write(self, key, value) ==
    [self EXCEPT !.sink[key] = Some(value), !.calls = Append(@, key)]

\* bluetooth_data_tools.short_address: the last two octets of the address
short_address(address) == SubSeq(address, Len(address) - 1, Len(address))

\* update_alarm re-emitting the stored alarm when the format carries none
update_alarm_sticky(self, alarm) ==
    IF alarm # None THEN sink_write(self, "alarm", alarm[1])
    ELSE IF self.sink["alarm"] # None THEN sink_write(self, "alarm", self.sink["alarm"][1])
    ELSE self

\* update_alarm testing the alarm's truth instead of its presence
update_alarm_truthy(self, alarm) ==
    IF alarm # None /\ alarm[1] THEN sink_write(self, "alarm", alarm[1]) ELSE self

\* if alarm is not None: self.update_binary_sensor(..., bool(alarm))
update_alarm(self, alarm) ==
    IF alarm # None THEN sink_write(self, "alarm", alarm[1]) ELSE self

update_sensors(self, address, pressure, battery, temperature, alarm, now) ==
    LET name == <<"TPMS">> \o short_address(address)
        s1 == sink_write(self, "device_type", name)
        s2 == sink_write(s1, "device_name", name)
        s3 == sink_write(s2, "title", name)
        s4 == sink_write(s3, "pressure", pressure)
        s5 == sink_write(s4, "temperature", temperature)
        s6 == sink_write(s5, "battery", battery)
        s7 == update_alarm(s6, alarm)
    IN  sink_write(s7, "timestamp", now)

(***************************************************************************)
(* Decoder A                                                               *)
(***************************************************************************)
\* process_tpms_a rejecting only payloads shorter than 16 bytes
process_tpms_a_min_length(self, address, data, now, order) ==
    LET fields == Slice(data, 6, 16)
    IN  IF Len(data) < 16 THEN self
        ELSE update_sensors(self, address, <<unpack_i(SubSeq(fields, 1, 4), order), 100000>>,
                            unpack_b(fields[9]),
                            <<unpack_i(SubSeq(fields, 5, 8), order), 100>>,
                            Some(unpack_bool(fields[10])), now)

process_tpms_a(self, address, data, now, order) ==
    LET msg_length == Len(data)
        fields == Slice(data, 6, 16)
        pressure == unpack_i(SubSeq(fields, 1, 4), order)
        temperature == unpack_i(SubSeq(fields, 5, 8), order)
        battery == unpack_b(fields[9])
        alarm == unpack_bool(fields[10])
    IN  IF msg_length # 16 THEN self
        ELSE update_sensors(self, address, <<pressure, 100000>>, battery,
                            <<temperature, 100>>, Some(alarm), now)

(***************************************************************************)
(* Decoder B                                                               *)
(***************************************************************************)
\* comp_hex: the company id as four hex digits with its two halves swapped
comp_hex(company_id) ==
    Join(Reverse(findall_pairs(zfill(HexDigits(company_id), 4))))

\* round(psi_pressure * 0.0689476, 3) in thousandths of a bar, for
\* psi_pressure = x / 10: x * 689476 / 10^8 = x * 172369 / 25000 thousandths.
\* The quotient is taken in pieces that fit 32 bits.  The product is an exact
\* tie for x = 12500, 37500 and 62500 only; the double nearest to it lies
\* below the tie for the first two and above it for the third.
round_bar(x) ==
    LET a == x \div 25000
        b == x % 25000
        low == b * 22369
        q == a * 172369 + 6 * b + low \div 25000
        r == low % 25000
    IN  IF 2 * r > 25000 \/ (2 * r = 25000 /\ x = 62500) THEN q + 1 ELSE q

\* int(round(max(0, min(100, battery)), 0)) for battery = num / 7 (never a tie)
clamp_battery(num) ==
    LET clamped == Max(0, Min(700, num))
    IN  (2 * clamped + 7) \div 14

process_tpms_b(self, address, data, company_id, now) ==
    LET data_hex == bytes_hex(data)
        msg_length == Len(data_hex)
        voltage == HexValue(SubSeq(comp_hex(company_id), 3, 4))
        raw_temperature == HexValue(SubSeq(data_hex, 1, 2))
        temperature == IF raw_temperature >= 128 THEN raw_temperature - 256
                       ELSE raw_temperature
        psi_pressure == HexValue(SubSeq(data_hex, 3, 6)) - 145
        pressure == round_bar(psi_pressure)
        battery == clamp_battery((voltage - 26) * 100)
    IN  IF msg_length # 10 THEN self
        ELSE update_sensors(self, address, <<pressure, 1000>>, battery,
                            <<temperature, 1>>, None, now)

(***************************************************************************)
(* TomTom decoder                                                          *)
(***************************************************************************)
\* float('inf') for best_diff; differences are counted in halves (0, 1)
Inf == 1000000

\* int.from_bytes(data[start_byte:start_byte+2], byteorder=endian) where both
\* bytes exist (every start byte used is at most len(data) - 2)
from_bytes2(data, start_byte, endian) ==
    IF endian = "big"
    THEN 256 * data[start_byte + 1] + data[start_byte + 2]
    ELSE 256 * data[start_byte + 2] + data[start_byte + 1]

\* a configuration the pressure is read with, and what it reads
Config(data, start_byte, endian, divisor) ==
    LET raw_value == from_bytes2(data, start_byte, endian)
    IN  [start_byte |-> start_byte, endian |-> endian, divisor |-> divisor,
         raw_value |-> raw_value,
         pressure_bar |-> <<raw_value, divisor * 100>>]

\* 1.5 <= pressure_bar <= 7.0
realistic(pressure_bar) ==
    Leq(<<15, 10>>, pressure_bar) /\ Leq(pressure_bar, <<70, 10>>)

\* 2.0 <= pressure_bar <= 5.0
typical(pressure_bar) ==
    Leq(<<20, 10>>, pressure_bar) /\ Leq(pressure_bar, <<50, 10>>)

\* the known_configs list: one slot per known sensor, None unless it is this one
known_configs(sensor_id) ==
    << IF sensor_id = 1 THEN Some(<<9, "big", 140>>) ELSE None,
       IF sensor_id = 2 THEN Some(<<8, "little", 150>>) ELSE None,
       IF sensor_id = 4 THEN Some(<<11, "little", 140>>) ELSE None >>

RECURSIVE try_known(_, _, _)
\* the loop over known_configs from slot i on: the first realistic one, or None
try_known(data, configs, i) ==
    IF i > Len(configs) THEN None
    ELSE IF configs[i] = None THEN try_known(data, configs, i + 1)
    ELSE LET c == Config(data, configs[i][1][1], configs[i][1][2], configs[i][1][3])
         IN  IF realistic(c.pressure_bar) THEN Some(c)
             ELSE try_known(data, configs, i + 1)

\* range(6, 16): the first start byte and the stop (excluded)
scan_first == 6

scan_stop == 16

scan_endians == <<"big", "little">>

scan_divisors == <<100, 110, 120, 130, 140, 150>>

\* scan_step keeping the last candidate of the best score (<= for <)
scan_step_last_best(data, start_byte, endian, divisor, best) ==
    LET pressure_bar == <<from_bytes2(data, start_byte, endian), divisor * 100>>
        diff == 2 - (IF typical(pressure_bar) THEN 2 ELSE 1)
    IN  IF realistic(pressure_bar) /\ diff <= best.diff
        THEN [diff |-> diff, config |-> Some(Config(data, start_byte, endian, divisor))]
        ELSE best

\* the body of the innermost loop: best = [diff, config]; the score is counted
\* in halves (1.0 is 2, 0.5 is 1)
scan_step(data, start_byte, endian, divisor, best) ==
    LET pressure_bar == <<from_bytes2(data, start_byte, endian), divisor * 100>>
        score == IF typical(pressure_bar) THEN 2 ELSE 1
        diff == 2 - score
    IN  IF realistic(pressure_bar) /\ diff < best.diff
        THEN [diff |-> diff, config |-> Some(Config(data, start_byte, endian, divisor))]
        ELSE best

RECURSIVE divisor_loop(_, _, _, _, _)
\* for divisor in [100, ..., 150], from the k-th on
divisor_loop(data, start_byte, endian, k, best) ==
    IF k > Len(scan_divisors) THEN best
    ELSE divisor_loop(data, start_byte, endian, k + 1,
                      scan_step(data, start_byte, endian, scan_divisors[k], best))

RECURSIVE endian_loop(_, _, _, _)
\* for endian in ['big', 'little'], from the j-th on
endian_loop(data, start_byte, j, best) ==
    IF j > Len(scan_endians) THEN best
    ELSE endian_loop(data, start_byte, j + 1,
                     divisor_loop(data, start_byte, scan_endians[j], 1, best))

RECURSIVE auto_detect(_, _, _)
\* for start_byte in range(6, 16), from start_byte on.  (The test on diff only
\* makes the evaluation of one iteration precede the next.)
auto_detect(data, start_byte, best) ==
    IF start_byte >= scan_stop THEN best
    ELSE IF start_byte + 2 > Len(data)
    THEN auto_detect(data, start_byte + 1, best)
    ELSE LET after == endian_loop(data, start_byte, 1, best)
         IN  IF after.diff <= Inf THEN auto_detect(data, start_byte + 1, after)
             ELSE after

\* fallback_pressure reading the two bytes little-endian
fallback_pressure_little(data) ==
    <<from_bytes2(data, 8, "little"), 100 * 100>>

\* "Fallback to original method": bytes 8..9 big-endian, / 100 / 100
fallback_pressure(data) ==
    <<from_bytes2(data, 8, "big"), 100 * 100>>

\* resolve_pressure running the auto-detection whether or not a known
\* configuration was accepted
resolve_pressure_always_scan(data, sensor_id) ==
    LET best_config == auto_detect(data, scan_first, [diff |-> Inf, config |-> None]).config
    IN  IF best_config # None
        THEN [pressure_bar |-> best_config[1].pressure_bar,
              endian_used |-> [endian |-> best_config[1].endian,
                               start_byte |-> best_config[1].start_byte,
                               divisor |-> best_config[1].divisor]]
        ELSE [pressure_bar |-> fallback_pressure(data),
              endian_used |-> [endian |-> "big (fallback)", start_byte |-> 8,
                               divisor |-> 100]]

\* the pressure of a TomTom payload and how it was found (endian_used)
resolve_pressure(data, sensor_id) ==
    LET known == try_known(data, known_configs(sensor_id), 1)
        best_config ==
            IF known # None THEN known
            ELSE auto_detect(data, scan_first, [diff |-> Inf, config |-> None]).config
    IN  IF best_config # None
        THEN [pressure_bar |-> best_config[1].pressure_bar,
              endian_used |-> [endian |-> best_config[1].endian,
                               start_byte |-> best_config[1].start_byte,
                               divisor |-> best_config[1].divisor]]
        ELSE [pressure_bar |-> fallback_pressure(data),
              endian_used |-> [endian |-> "big (fallback)", start_byte |-> 8,
                               divisor |-> 100]]

\* _LOGGER.info("TomTom TPMS parsed ... [pressure: %s-endian]", ..., endian_used)
log_parsed(self, endian_used) == [self EXCEPT !.logged = Some(endian_used)]

\* the try block of _process_tpms_tomtom
parse_tomtom(self, address, data, now) ==
    LET sensor_number == At(data, 2)
        sensor_id == sensor_number - 128 + 1
        resolved == resolve_pressure(data, sensor_id)
        temp_raw == from_bytes2(data, 12, "little")
        battery == IF At(data, 16) <= 100 THEN At(data, 16) ELSE 100
        alarm == At(data, 17) # 0
    IN  update_sensors(log_parsed(self, resolved.endian_used), address,
                       resolved.pressure_bar, battery, <<temp_raw, 100>>,
                       Some(alarm), now)

\* process_tpms_tomtom emitting the except branch's placeholder reading for a
\* payload of the wrong length
process_tpms_tomtom_placeholder(self, address, data, now) ==
    IF Len(data) # 18
    THEN update_sensors(self, address, <<0, 1>>, 0, <<0, 1>>, Some(FALSE), now)
    ELSE parse_tomtom(self, address, data, now)

\* The try block raises nothing on an 18-byte payload (every index it reads
\* exists), so the except branch is not entered.
process_tpms_tomtom(self, address, data, now) ==
    LET msg_length == Len(data)
    IN  IF msg_length # 18 THEN self
        ELSE parse_tomtom(self, address, data, now)

(***************************************************************************)
(* _start_update                                                           *)
(***************************************************************************)
\* select_decoder with the TomTom test made before the Type B test
select_decoder_tomtom_first(service_uuids, company_id) ==
    IF company_id = 256 /\ UUID_FBB0 \in service_uuids THEN "tomtom"
    ELSE IF UUID_B \in service_uuids THEN "b"
    ELSE IF company_id = 256 THEN "a"
    ELSE "none"

\* the if/elif chain: the _process_* method the record is handed to
select_decoder(service_uuids, company_id) ==
    IF UUID_B \in service_uuids THEN "b"
    ELSE IF company_id = 256 /\ UUID_FBB0 \in service_uuids THEN "tomtom"
    ELSE IF company_id = 256 THEN "a"
    ELSE "none"

enter(self, decoder) == [self EXCEPT !.invoked = Append(@, decoder)]

start_update(self, service_info, now, order) ==
    LET manufacturer_data == service_info.manufacturer_data
        address == service_info.address
        company_id == Head(manufacturer_data).company_id
        mfr_data == Head(manufacturer_data).data
        s1 == sink_write(self, "manufacturer", "TPMS")
        decoder == select_decoder(service_info.service_uuids, company_id)
    IN  IF Len(manufacturer_data) = 0 THEN self
        ELSE IF decoder = "b"
        THEN process_tpms_b(enter(s1, "b"), address, mfr_data, company_id, now)
        ELSE IF decoder = "tomtom"
        THEN process_tpms_tomtom(enter(s1, "tomtom"), address, mfr_data, now)
        ELSE IF decoder = "a"
        THEN process_tpms_a(enter(s1, "a"), address, mfr_data, now, order)
        ELSE s1

(***************************************************************************)
(* Inputs: the advertisement records the handlers are called with          *)
(***************************************************************************)
\* manufacturer_data holds at most this many entries
MaxEntries == 2

\* datetime.now() returns one of 1..MaxTime
MaxTime == 1

Times == 1..MaxTime

Zeros(n) == [i \in 1..n |-> 0]

\* n >= 0 as four bytes, least significant first
Bytes32(n) == <<n % 256, (n \div 256) % 256, (n \div 65536) % 256, n \div 16777216>>

\* a 16-byte payload of decoder A's layout
PayloadA(pressure, temperature, battery, alarm) ==
    Zeros(6) \o Bytes32(pressure) \o Bytes32(temperature) \o <<battery, alarm>>

\* an 18-byte TomTom payload: zero but for the sensor number (byte 2), one byte
\* of the pressure/temperature area, the battery (byte 16) and the alarm (byte 17)
PayloadTomTom(sensor_number, pos, val, battery, alarm) ==
    [i \in 1..18 |->
        IF i - 1 = 2 THEN sensor_number
        ELSE IF i - 1 = 16 THEN battery
        ELSE IF i - 1 = 17 THEN alarm
        ELSE IF i - 1 = pos THEN val
        ELSE 0]

SampleA == PayloadA(500000, 2500, 80, 1)

\* battery byte 255: -1 as a signed byte
SampleANegative == PayloadA(250000, 2000, 255, 0)

\* 25 degrees, raw pressure 0x0917
SampleB == <<25, 9, 23, 0, 0>>

\* sensor 1 whose known configuration (bytes 9..10, big, 140) reads 1.755 bar
SampleTomTom == PayloadTomTom(128, 9, 96, 50, 1)

\* company ids: 256; 384 (in 384..387); 7685 = 0x1E05, whose high byte reads
\* 3.0 V in decoder B
FirstEntries ==
    { [company_id |-> 256, data |-> d] :
        d \in { SampleA, SampleANegative, SampleB, SampleTomTom, Zeros(15) } }
    \cup { [company_id |-> 384, data |-> SampleTomTom] }
    \cup { [company_id |-> 7685, data |-> SampleB] }

MoreEntries ==
    { [company_id |-> 256, data |-> SampleA],
      [company_id |-> 384, data |-> <<>>] }

DistinctKeys(md) ==
    \A i, j \in 1..Len(md) : md[i].company_id = md[j].company_id => i = j

RECURSIVE Dicts(_)
\* the dicts of at most n entries: a first entry, then entries of MoreEntries
Dicts(n) ==
    IF n = 0 THEN { <<>> }
    ELSE IF n = 1 THEN { <<>> } \cup { <<e>> : e \in FirstEntries }
    ELSE Dicts(n - 1) \cup
         { md \in { Append(d, e) : d \in Dicts(n - 1) \ { <<>> }, e \in MoreEntries } :
             DistinctKeys(md) }

\* TomTom payloads: one marked byte per payload, for every sensor position;
\* payloads that are zero but for the battery byte; a marked byte 15 beside a
\* full battery; payloads of 17 and 19 bytes
TomTomPayloads ==
    { PayloadTomTom(sensor_number, pos, val, 50, 0) :
        sensor_number \in 128..131, pos \in {8, 9, 10, 11, 12, 13, 15}, val \in {96, 200} }
    \cup { PayloadTomTom(128, 8, 16, 50, 1), PayloadTomTom(130, 9, 16, 50, 0) }
    \cup { PayloadTomTom(130, 8, 0, battery, 1) : battery \in {0, 100, 200} }
    \cup { PayloadTomTom(130, 15, 64, 100, 0) }
    \cup { Zeros(17), Zeros(19) }

Addresses == { <<"AA", "BB", "CC", "DD", "EE", "01">> }

Records ==
    [ address : Addresses,
      service_uuids : SUBSET {UUID_B, UUID_FBB0},
      manufacturer_data : Dicts(MaxEntries) ]

TomTomRecords ==
    [ address : Addresses,
      service_uuids : { {UUID_FBB0} },
      manufacturer_data : { << [company_id |-> 256, data |-> d] >> : d \in TomTomPayloads } ]

\* the record of no call
NoRecord == [address |-> <<>>, service_uuids |-> {}, manufacturer_data |-> <<>>]

(***************************************************************************)
(* The state machine                                                       *)
(***************************************************************************)
SinkKeys ==
    { "manufacturer", "device_type", "device_name", "title",
      "pressure", "temperature", "battery", "alarm", "timestamp" }

\* the object after __init__: nothing stored; byteorder is sys.byteorder
InitData ==
    /\ sink = [k \in SinkKeys |-> None]
    /\ rec = NoRecord
    /\ op = "init"
    /\ invoked = <<>>
    /\ calls = <<>>
    /\ logged = None
    /\ ret = FALSE
    /\ byteorder \in {"little", "big"}

Init ==
    /\ InitData
    /\ probe = NoRecord
    /\ probeOut = None
    /\ probeRuns = 0

\* _start_update(service_info), with datetime.now() = now
CallStartUpdate(service_info, now) ==
    LET self == start_update([sink |-> sink, calls |-> <<>>, invoked |-> <<>>,
                              logged |-> None],
                             service_info, now, byteorder)
    IN  /\ sink' = self.sink
        /\ calls' = self.calls
        /\ logged' = self.logged
        /\ invoked' = self.invoked
        /\ rec' = service_info
        /\ op' = "start_update"
        /\ UNCHANGED <<ret, byteorder>>

\* supported(service_info)
CallSupported(service_info) ==
    /\ ret' = supported(service_info)
    /\ rec' = service_info
    /\ op' = "supported"
    /\ calls' = <<>>
    /\ logged' = None
    /\ invoked' = <<>>
    /\ UNCHANGED <<sink, byteorder>>

Next ==
    \/ \E service_info \in Records, now \in Times :
          CallStartUpdate(service_info, now) /\ UNCHANGED histVars
    \/ \E service_info \in Records :
          CallSupported(service_info) /\ UNCHANGED histVars

Spec == Init /\ [][Next]_vars

\* The TomTom decoder alone, on TomTomRecords (it reads no native-order field)
InitTomTom == Init /\ byteorder = "little"

NextTomTom ==
    \E service_info \in TomTomRecords, now \in Times :
        CallStartUpdate(service_info, now) /\ UNCHANGED histVars

SpecTomTom == InitTomTom /\ [][NextTomTom]_vars

\* Repeated processing of one record, the probe, among others: probeOut keeps
\* what the first processing of the probe emitted and the sink it started from,
\* probeRuns counts the probe's processings (up to MaxRuns)
MaxRuns == 2

HistRecords ==
    { r \in Records :
        \/ r.manufacturer_data = <<>> /\ r.service_uuids = {}
        \/ /\ Len(r.manufacturer_data) = 1
           /\ \/ /\ r.service_uuids = {}
                 /\ Head(r.manufacturer_data) \in { [company_id |-> 256, data |-> d] :
                                          d \in {SampleA, SampleANegative, Zeros(15)} }
              \/ /\ r.service_uuids = {UUID_B}
                 /\ Head(r.manufacturer_data) = [company_id |-> 7685, data |-> SampleB]
              \/ /\ r.service_uuids = {UUID_FBB0}
                 /\ Head(r.manufacturer_data) = [company_id |-> 256, data |-> SampleTomTom] }

\* the pressure, temperature, battery and alarm written by a call that wrote
\* the keys written (None for a key it did not write)
EmittedOf(written, stored) ==
    [k \in {"pressure", "temperature", "battery", "alarm"} |->
        IF \E i \in 1..Len(written) : written[i] = k THEN stored[k] ELSE None]

InitHist ==
    /\ InitData
    /\ probe \in HistRecords
    /\ probeOut = None
    /\ probeRuns = 0

\* the bookkeeping of a call of _start_update(service_info)
Observe(service_info) ==
    IF service_info = probe
    THEN /\ probeRuns' = Min(probeRuns + 1, MaxRuns)
         /\ probeOut' = IF probeOut = None
                         THEN Some([reading |-> EmittedOf(calls', sink'), before |-> sink])
                         ELSE probeOut
         /\ probe' = probe
    ELSE UNCHANGED histVars

NextHist ==
    \/ \E service_info \in HistRecords, now \in Times :
          CallStartUpdate(service_info, now) /\ Observe(service_info)
    \/ \E service_info \in HistRecords :
          CallSupported(service_info) /\ UNCHANGED histVars

SpecHist == InitHist /\ [][NextHist]_vars

\* The three decoders on records that differ in the alarm flag byte: decoder A
\* and TomTom payloads with flag byte 0, 1, 2 and 255, decoder B payloads (with
\* and without fbb0 beside 000027a5), and records that emit nothing
AlarmBytes == {0, 1, 2, 255}

AlarmRecords ==
    { [address |-> a, service_uuids |-> {},
       manufacturer_data |-> << [company_id |-> 256, data |-> PayloadA(p, t, 80, f)] >>] :
         a \in Addresses, p \in {250000, 500000}, t \in {2000, 2500}, f \in AlarmBytes }
    \cup { [address |-> a, service_uuids |-> {UUID_FBB0},
            manufacturer_data |-> << [company_id |-> 256,
                                      data |-> PayloadTomTom(128, 9, 96, 50, f)] >>] :
              a \in Addresses, f \in AlarmBytes }
    \cup { [address |-> a, service_uuids |-> u,
            manufacturer_data |-> << [company_id |-> 7685, data |-> SampleB] >>] :
              a \in Addresses, u \in { {UUID_B}, {UUID_B, UUID_FBB0} } }
    \cup { [address |-> a, service_uuids |-> {},
            manufacturer_data |-> << [company_id |-> 256, data |-> Zeros(15)] >>] :
              a \in Addresses }
    \cup { [address |-> a, service_uuids |-> {}, manufacturer_data |-> <<>>] :
              a \in Addresses }

NextAlarm ==
    \E service_info \in AlarmRecords, now \in Times :
        CallStartUpdate(service_info, now) /\ UNCHANGED histVars

SpecAlarm == Init /\ [][NextAlarm]_vars

(***************************************************************************)
(* Properties                                                              *)
(***************************************************************************)
Written(key) == \E i \in 1..Len(calls) : calls[i] = key

ReadingKeys == {"pressure", "temperature", "battery", "alarm", "timestamp"}

\* the entry _start_update consumes, when there is one
ConsumedId(r) == Head(r.manufacturer_data).company_id

ConsumedData(r) == Head(r.manufacturer_data).data

\* the record r, handed to the decoders inv, is skipped: no format matched (or
\* there was no manufacturer data), or the payload fails the format's length
Skipped(r, inv) ==
    \/ inv = <<>>
    \/ inv = <<"a">> /\ Len(ConsumedData(r)) # 16
    \/ inv = <<"b">> /\ Len(ConsumedData(r)) # 5
    \/ inv = <<"tomtom">> /\ Len(ConsumedData(r)) # 18

\* C1: for a record with manufacturer data, _start_update hands the consumed
\* entry to decoder B when 000027a5 is advertised (whatever the company id and
\* whether or not fbb0 is advertised too), else to the TomTom decoder when fbb0
\* is advertised and the company id is 256, else to decoder A when the company
\* id is 256; it never calls more than one decoder.
C1_DispatchPrecedence ==
    (op = "start_update" /\ Len(rec.manufacturer_data) > 0) =>
        LET u == rec.service_uuids
            cid == ConsumedId(rec)
        IN  /\ Len(invoked) <= 1
            /\ UUID_B \in u => invoked = <<"b">>
            /\ (UUID_B \notin u /\ UUID_FBB0 \in u /\ cid = 256) => invoked = <<"tomtom">>
            /\ (UUID_B \notin u /\ UUID_FBB0 \notin u /\ cid = 256) => invoked = <<"a">>

\* a record advertising both UUIDs with company id 256 went to decoder B
C1_Witness ==
    /\ op = "start_update"
    /\ Len(rec.manufacturer_data) > 0
    /\ rec.service_uuids = {UUID_B, UUID_FBB0}
    /\ ConsumedId(rec) = 256
    /\ invoked = <<"b">>

\* C2: a record whose company id is in 384..387 and that does not advertise
\* 000027a5 is handed to a decoder C, and an 18-byte payload gives a reading.
C2_FormatCDecoded ==
    (/\ op = "start_update"
     /\ Len(rec.manufacturer_data) > 0
     /\ ConsumedId(rec) \in 384..387
     /\ UUID_B \notin rec.service_uuids) =>
        /\ invoked = <<"c">>
        /\ Len(ConsumedData(rec)) = 18 => Written("pressure")

\* C3: supported() is true of a record exactly when _start_update hands the
\* same record to decoder B, TomTom or A.
C3_SupportedIffDispatched ==
    op = "start_update" =>
        (supported(rec) <=> invoked \in { <<"b">>, <<"tomtom">>, <<"a">> })

\* C4: a record that matches no format, or whose payload fails the length
\* check of the decoder it is handed to, writes no pressure, temperature,
\* battery, alarm or timestamp.
C4_SkippedEmitsNothing ==
    (op = "start_update" /\ Skipped(rec, invoked)) =>
        \A key \in ReadingKeys : ~Written(key)

\* an 18-byte payload was handed to decoder A and rejected, after a reading
\* had been stored
C4_Witness ==
    /\ op = "start_update"
    /\ invoked = <<"a">>
    /\ Len(ConsumedData(rec)) = 18
    /\ sink["pressure"] # None
    /\ ~Written("pressure")

\* C5: every battery value written to the sink lies in 0..100.
C5_BatteryInRange ==
    Written("battery") => (0 <= sink["battery"][1] /\ sink["battery"][1] <= 100)

\* C6 (as stated): a call of _start_update that emits no reading leaves every
\* sink field unchanged.
C6_NoReadingNoWrite ==
    [][(op' = "start_update" /\ Skipped(rec', invoked')) => sink' = sink]_vars

\* C6 (amended): a call of _start_update that emits no reading leaves every
\* sink field but the manufacturer unchanged; the manufacturer is set to "TPMS"
\* when the record has manufacturer data and is left alone when it has none.
C6_NoReadingOnlyManufacturer ==
    [][(op' = "start_update" /\ Skipped(rec', invoked')) =>
          /\ \A key \in SinkKeys \ {"manufacturer"} : sink'[key] = sink[key]
          /\ Len(rec'.manufacturer_data) = 0 => sink' = sink
          /\ Len(rec'.manufacturer_data) > 0 => sink'["manufacturer"] = Some("TPMS")
      ]_vars

\* a skipped record with manufacturer data was processed after a reading had
\* been stored: only the manufacturer was written
C6_Witness ==
    /\ op = "start_update"
    /\ Skipped(rec, invoked)
    /\ Len(rec.manufacturer_data) > 0
    /\ calls = <<"manufacturer">>
    /\ sink["pressure"] # None
    /\ sink["timestamp"] # None

(***************************************************************************)
(* Properties of the TomTom decoder (SpecTomTom)                           *)
(***************************************************************************)
\* an 18-byte payload went through the TomTom decoder
TomTomDecoded ==
    /\ op = "start_update"
    /\ invoked = <<"tomtom">>
    /\ Len(ConsumedData(rec)) = 18

\* the unsigned 16-bit integer at bytes off, off + 1 of the payload
U16(data, off, endian) ==
    IF endian = "big" THEN data[off + 1] * 256 + data[off + 2]
    ELSE data[off + 2] * 256 + data[off + 1]

\* the documented per-sensor configuration: <<offset, endianness, divisor>>
KnownConfig(sensor_id) ==
    CASE sensor_id = 1 -> <<9, "big", 140>>
      [] sensor_id = 2 -> <<8, "little", 150>>
      [] sensor_id = 4 -> <<11, "little", 140>>

\* the pressure a candidate decodes to: (raw / divisor) / 100 bar
CandidateBar(data, cand) == <<U16(data, cand[1], cand[2]), cand[3] * 100>>

\* 0: outside [1.5, 7.0]; 2: in [2.0, 5.0] (score 1.0); 1: the rest (score 0.5)
CandidateScore(data, cand) ==
    LET raw == U16(data, cand[1], cand[2])
    IN  IF raw < 150 * cand[3] \/ raw > 700 * cand[3] THEN 0
        ELSE IF raw >= 200 * cand[3] /\ raw <= 500 * cand[3] THEN 2
        ELSE 1

SensorIdOf(data) == data[3] - 128 + 1

\* the sensor has a documented configuration and it decodes into [1.5, 7.0]
KnownAccepted(data) ==
    /\ SensorIdOf(data) \in {1, 2, 4}
    /\ CandidateScore(data, KnownConfig(SensorIdOf(data))) > 0

\* the i-th candidate (from 0) of the scan order: offset ascending from 6,
\* big-endian before little-endian, divisor ascending
ScanCandidate(i) ==
    << 6 + (i \div 12),
       IF (i \div 6) % 2 = 0 THEN "big" ELSE "little",
       100 + 10 * (i % 6) >>

\* the positions of the candidates with start offset 6..last
ScanPositions(last) == 0..((last - 6 + 1) * 12 - 1)

HasPlausible(data, last) ==
    \E i \in ScanPositions(last) : CandidateScore(data, ScanCandidate(i)) > 0

\* i is the first position, among offsets 6..last, of the highest score there
IsFirstBest(data, last, i) ==
    /\ i \in ScanPositions(last)
    /\ CandidateScore(data, ScanCandidate(i)) > 0
    /\ \A j \in ScanPositions(last) :
          /\ CandidateScore(data, ScanCandidate(j)) <= CandidateScore(data, ScanCandidate(i))
          /\ j < i => CandidateScore(data, ScanCandidate(j)) < CandidateScore(data, ScanCandidate(i))

EmittedBar == sink["pressure"][1]

\* C7: for a sensor 1, 2 or 4 whose documented configuration decodes into
\* [1.5, 7.0] bar, the emitted pressure is that candidate's value.
C7_KnownConfigWins ==
    (TomTomDecoded /\ KnownAccepted(ConsumedData(rec))) =>
        LET data == ConsumedData(rec)
        IN  /\ Written("pressure")
            /\ EmittedBar = CandidateBar(data, KnownConfig(SensorIdOf(data)))

\* the documented configuration was emitted although the scan's first best
\* candidate has another value
C7_Witness ==
    /\ TomTomDecoded
    /\ KnownAccepted(ConsumedData(rec))
    /\ \E i \in ScanPositions(15) :
          /\ IsFirstBest(ConsumedData(rec), 15, i)
          /\ ~SameValue(CandidateBar(ConsumedData(rec), ScanCandidate(i)), EmittedBar)

\* C8 (as stated): with no documented configuration accepted and a candidate
\* in [1.5, 7.0] among start offsets 6..14, the emitted pressure is that of the
\* first candidate of the highest score among start offsets 6..14.
C8_FirstBestUpTo14 ==
    (/\ TomTomDecoded
     /\ ~KnownAccepted(ConsumedData(rec))
     /\ HasPlausible(ConsumedData(rec), 14)) =>
        \E i \in ScanPositions(14) :
            /\ IsFirstBest(ConsumedData(rec), 14, i)
            /\ EmittedBar = CandidateBar(ConsumedData(rec), ScanCandidate(i))

\* C8 (amended): the scan covers start offsets 6..15 (120 candidates): with no
\* documented configuration accepted and a candidate in [1.5, 7.0] among them,
\* the emitted pressure is that of the first candidate of the highest score
\* among start offsets 6..15, which bytes 6..16 of the payload determine.
C8_FirstBestUpTo15 ==
    /\ Cardinality(ScanPositions(scan_stop - 1)) = 120
    /\ (/\ TomTomDecoded
        /\ ~KnownAccepted(ConsumedData(rec))
        /\ HasPlausible(ConsumedData(rec), 15)) =>
           \E i \in ScanPositions(15) :
               /\ IsFirstBest(ConsumedData(rec), 15, i)
               /\ EmittedBar = CandidateBar(ConsumedData(rec), ScanCandidate(i))
               /\ logged = Some([endian |-> ScanCandidate(i)[2],
                                 start_byte |-> ScanCandidate(i)[1],
                                 divisor |-> ScanCandidate(i)[3]])

\* the scan selected a candidate of score 1.0 after passing one of score 0.5
C8_Witness ==
    /\ TomTomDecoded
    /\ ~KnownAccepted(ConsumedData(rec))
    /\ \E i \in ScanPositions(15) :
          /\ IsFirstBest(ConsumedData(rec), 15, i)
          /\ EmittedBar = CandidateBar(ConsumedData(rec), ScanCandidate(i))
          /\ \E j \in ScanPositions(15) :
                j < i /\ CandidateScore(ConsumedData(rec), ScanCandidate(j)) = 1

UsedFallback == logged # None /\ logged[1].endian = "big (fallback)"

\* C9 (as stated): the fallback (bytes 8..9 big-endian / 10000) is emitted
\* exactly when no documented configuration is accepted and no candidate with
\* start offset 6..14 lies in [1.5, 7.0].
C9_FallbackIffNoneUpTo14 ==
    TomTomDecoded =>
        /\ UsedFallback <=>
              (~KnownAccepted(ConsumedData(rec)) /\ ~HasPlausible(ConsumedData(rec), 14))
        /\ UsedFallback => EmittedBar = <<U16(ConsumedData(rec), 8, "big"), 10000>>

\* C9 (amended): the same with start offsets 6..15.
C9_FallbackIffNoneUpTo15 ==
    TomTomDecoded =>
        /\ UsedFallback <=>
              (~KnownAccepted(ConsumedData(rec)) /\ ~HasPlausible(ConsumedData(rec), 15))
        /\ UsedFallback => EmittedBar = <<U16(ConsumedData(rec), 8, "big"), 10000>>

\* the fallback emitted a non-zero pressure below 1.5 bar
C9_Witness ==
    /\ TomTomDecoded
    /\ UsedFallback
    /\ EmittedBar = <<4096, 10000>>

(***************************************************************************)
(* Repeated processing (SpecHist)                                          *)
(***************************************************************************)
\* C10: whatever was processed before, every processing of a record emits the
\* pressure, temperature, battery and alarm that the first processing of the
\* same record emitted (the timestamp apart).
C10_HistoryIndependent ==
    (op = "start_update" /\ rec = probe /\ probeOut # None) =>
        EmittedOf(calls, sink) = probeOut[1].reading

\* a record without an alarm flag was processed a second time and emitted a
\* reading; its first processing started from a sink holding no alarm, this one
\* from a sink holding the alarm of another record
C10_Witness ==
    /\ op = "start_update"
    /\ rec = probe
    /\ probeRuns = MaxRuns
    /\ probeOut # None
    /\ probeOut[1].before["alarm"] = None
    /\ Written("pressure")
    /\ ~Written("alarm")
    /\ sink["alarm"] # None

(***************************************************************************)
(* The alarm (SpecAlarm)                                                   *)
(***************************************************************************)
\* the alarm flag byte of the payload data in the layout of decoder d
\* (offset 15 for decoder A, offset 17 for the TomTom decoder)
FlagByte(data, d) == IF d = "a" THEN data[16] ELSE data[18]

\* C11: a reading emitted by decoder A or by the TomTom decoder writes the
\* alarm, true exactly when the flag byte is nonzero; a reading emitted by
\* decoder B writes pressure, temperature, battery and timestamp and no alarm;
\* no other call writes an alarm.
C11_AlarmIffFlagged ==
    op = "start_update" =>
        /\ \A d \in {"a", "tomtom"} :
              (invoked = <<d>> /\ ~Skipped(rec, invoked)) =>
                  /\ Written("alarm")
                  /\ sink["alarm"] = Some(FlagByte(ConsumedData(rec), d) # 0)
        /\ (invoked = <<"b">> /\ ~Skipped(rec, invoked)) =>
              /\ \A key \in {"pressure", "temperature", "battery", "timestamp"} :
                    Written(key)
              /\ ~Written("alarm")
        /\ Written("alarm") =>
              (invoked \in { <<"a">>, <<"tomtom">> } /\ ~Skipped(rec, invoked))

\* decoder B emitted a reading without an alarm over a sink whose alarm, true,
\* was left by an earlier record
C11_Witness ==
    /\ op = "start_update"
    /\ invoked = <<"b">>
    /\ Written("pressure")
    /\ Written("timestamp")
    /\ ~Written("alarm")
    /\ sink["alarm"] = Some(TRUE)
    /\ sink["battery"] = Some(57)

====
